---- MODULE Spec2Model ----
(***************************************************************************)
(* Model of process_database.py: the date aligner                          *)
(* find_closest_trading_day, the per-period calculator                     *)
(* calculate_returns_optimized and the batch runner main.                  *)
(*                                                                         *)
(* Conventions.                                                            *)
(*  - A date is its day number since 1970-01-01 (a datetime64 at midnight);*)
(*    the Date column holds valid dates only (no NaT).                     *)
(*  - Sequences are 1-based: model index k is Python index k-1.  Python's  *)
(*    None, as an index, is NoneIdx (0, below every model index).          *)
(*  - A text value (a raw cell, a formatted date, a result cell) is the    *)
(*    sequence of its characters; "" is << >>.                             *)
(*  - A numeric value of a coerced series is << v >>, NaN is << >>.        *)
(*  - Rows of equal date keep their order in the sort, as the sort of the  *)
(*    host library does on tables this small.                              *)
(*  - The progress messages that carry no decision are not in stdout.      *)
(***************************************************************************)
EXTENDS Integers, Sequences, FiniteSets, TLC

VARIABLES
    pc,            \* position of the running code
    df,            \* main: the table read from Sheet1
    failing,       \* the columns whose processing raises inside the try block
                   \* (such as a column name that occurs twice: df[column] is
                   \* then a frame, which has no .str)
    yi,            \* main: position in the periods list
    years,         \* calculate_returns_optimized: the holding period
    cdf,           \* calculate_returns_optimized: its df (the copy, then sorted)
    to_indices,    \* calculate_returns_optimized: end index per row
    result_df,     \* calculate_returns_optimized: the frame being built
    ci,            \* calculate_returns_optimized: position in df.columns
    all_results,   \* main: the period results so far
    stdout,        \* the messages printed so far
    final_db,      \* the table 'returns' of ./final.db
    writes,        \* number of to_sql calls that completed
    dates_array,   \* find_closest_trading_day: argument
    target_date,   \* find_closest_trading_day: argument
    start_index,   \* find_closest_trading_day: argument
    closest_idx    \* find_closest_trading_day: returned value

vars == << pc, df, failing, yi, years, cdf, to_indices, result_df, ci,
           all_results, stdout, final_db, writes,
           dates_array, target_date, start_index, closest_idx >>

locVars  == << dates_array, target_date, start_index, closest_idx >>
calcVars == << years, cdf, to_indices, result_df, ci >>
mainVars == << df, yi, all_results, final_db, writes >>

-----------------------------------------------------------------------------
(* Bounds of the model.                                                    *)

\* most rows of a table given to calculate_returns_optimized
MaxRows == 3
\* most rows of the table main reads
MaxRowsMain == 3
\* longest date sequence given to find_closest_trading_day
MaxLen == 3
\* dates given to find_closest_trading_day are the day numbers 1 .. MaxDay
MaxDay == 4

NoneIdx == 0

-----------------------------------------------------------------------------
(* Small helpers.                                                          *)

Min(S) == CHOOSE x \in S : \A y \in S : x <= y
Max(S) == CHOOSE x \in S : \A y \in S : x >= y

RECURSIVE SeqsUpTo(_, _)
SeqsUpTo(S, n) ==
    IF n = 0 THEN { << >> }
    ELSE LET shorter == SeqsUpTo(S, n - 1)
         IN  shorter \cup { Append(s, x) : s \in { t \in shorter : Len(t) = n - 1 }, x \in S }

-----------------------------------------------------------------------------
(* Calendar arithmetic of the host date library (proleptic Gregorian).     *)

IsLeap(y) == (y % 4 = 0 /\ y % 100 # 0) \/ y % 400 = 0

DaysInMonth(y, m) ==
    IF m = 2 THEN (IF IsLeap(y) THEN 29 ELSE 28)
    ELSE IF m \in {4, 6, 9, 11} THEN 30 ELSE 31

\* day number of the civil date y-m-d
DaysFromCivil(y, m, d) ==
    LET yy  == IF m <= 2 THEN y - 1 ELSE y
        era == yy \div 400
        yoe == yy - era * 400
        mp  == IF m > 2 THEN m - 3 ELSE m + 9
        doy == (153 * mp + 2) \div 5 + d - 1
        doe == yoe * 365 + yoe \div 4 - yoe \div 100 + doy
    IN  era * 146097 + doe - 719468

\* civil date [y, m, d] of a day number
CivilFromDays(n) ==
    LET z   == n + 719468
        era == z \div 146097
        doe == z - era * 146097
        yoe == (doe - doe \div 1460 + doe \div 36524 - doe \div 146096) \div 365
        doy == doe - (365 * yoe + yoe \div 4 - yoe \div 100)
        mp  == (5 * doy + 2) \div 153
        d   == doy - (153 * mp + 2) \div 5 + 1
        m   == IF mp < 10 THEN mp + 3 ELSE mp - 9
        y   == yoe + era * 400 + (IF m <= 2 THEN 1 ELSE 0)
    IN  [y |-> y, m |-> m, d |-> d]

\* date + pd.DateOffset(years = n): same month and day n years on, the day
\* clamped to the end of the month (Feb 29 -> Feb 28 in a non-leap year)
DateOffset(date, n) ==
    LET c   == CivilFromDays(date)
        dim == DaysInMonth(c.y + n, c.m)
    IN  DaysFromCivil(c.y + n, c.m, IF c.d > dim THEN dim ELSE c.d)

DigitChar == << "0", "1", "2", "3", "4", "5", "6", "7", "8", "9" >>

\* the decimal digits of n, zero-padded to width w
RECURSIVE Pad(_, _)
Pad(n, w) ==
    IF w = 0 THEN << >> ELSE Append(Pad(n \div 10, w - 1), DigitChar[(n % 10) + 1])

\* date.strftime('%m/%d/%Y')
strftime(date) ==
    LET c == CivilFromDays(date)
    IN  Pad(c.m, 2) \o << "/" >> \o Pad(c.d, 2) \o << "/" >> \o Pad(c.y, 4)

-----------------------------------------------------------------------------
(* find_closest_trading_day                                                *)

\* faulty variant: an exact match returns the last occurrence
find_closest_trading_day_lastMatch(dates, target, start) ==
    LET available_dates == SubSeq(dates, start, Len(dates))
        n               == Len(available_dates)
        exact_matches   == { p \in 1..n : available_dates[p] = target }
        past_dates_idx  == { p \in 1..n : available_dates[p] < target }
    IN  IF n = 0 THEN NoneIdx
        ELSE IF target > available_dates[n] THEN NoneIdx
        ELSE IF exact_matches # {} THEN start + Max(exact_matches) - 1
        ELSE IF past_dates_idx # {} THEN start + Max(past_dates_idx) - 1
        ELSE NoneIdx

\* faulty variant: no check of the target against the last available date
find_closest_trading_day_noHorizon(dates, target, start) ==
    LET available_dates == SubSeq(dates, start, Len(dates))
        n               == Len(available_dates)
        exact_matches   == { p \in 1..n : available_dates[p] = target }
        past_dates_idx  == { p \in 1..n : available_dates[p] < target }
    IN  IF n = 0 THEN NoneIdx
        ELSE IF exact_matches # {} THEN start + Min(exact_matches) - 1
        ELSE IF past_dates_idx # {} THEN start + Max(past_dates_idx) - 1
        ELSE NoneIdx

\* faulty variant: the index in the slice is returned, start_index not added
find_closest_trading_day_sliceIndex(dates, target, start) ==
    LET available_dates == SubSeq(dates, start, Len(dates))
        n               == Len(available_dates)
        exact_matches   == { p \in 1..n : available_dates[p] = target }
        past_dates_idx  == { p \in 1..n : available_dates[p] < target }
    IN  IF n = 0 THEN NoneIdx
        ELSE IF target > available_dates[n] THEN NoneIdx
        ELSE IF exact_matches # {} THEN Min(exact_matches)
        ELSE IF past_dates_idx # {} THEN Max(past_dates_idx)
        ELSE NoneIdx

find_closest_trading_day(dates, target, start) ==
    LET available_dates == SubSeq(dates, start, Len(dates))
        n               == Len(available_dates)
        exact_matches   == { p \in 1..n : available_dates[p] = target }
        past_dates_idx  == { p \in 1..n : available_dates[p] < target }
    IN  IF n = 0 THEN NoneIdx
        ELSE IF target > available_dates[n] THEN NoneIdx
        ELSE IF exact_matches # {} THEN start + Min(exact_matches) - 1
        ELSE IF past_dates_idx # {} THEN start + Max(past_dates_idx) - 1
        ELSE NoneIdx

-----------------------------------------------------------------------------
(* Frames: a frame is the sequence of its columns, in column order; a       *)
(* column is [name, cells].  Column names: << "From" >>, << "To", years >>  *)
(* for f'To ({years}Yr)' and << column, years >> for f" {column} ({years}Yr)". *)

ColumnIndex(frame, name) == { k \in 1..Len(frame) : frame[k].name = name }

Column(frame, name) == frame[Min(ColumnIndex(frame, name))].cells

NumRows(frame) == IF Len(frame) = 0 THEN 0 ELSE Len(frame[1].cells)

\* frame[name] = cells: replaces the column of that name, else appends one
SetColumn(frame, name, cells) ==
    IF ColumnIndex(frame, name) # {}
    THEN [k \in 1..Len(frame) |->
            IF frame[k].name = name THEN [name |-> name, cells |-> cells] ELSE frame[k]]
    ELSE Append(frame, [name |-> name, cells |-> cells])

\* the subsequence of s at the positions where mask is TRUE
RECURSIVE Mask(_, _)
Mask(s, mask) ==
    IF Len(s) = 0 THEN << >>
    ELSE LET front == Mask(SubSeq(s, 1, Len(s) - 1), SubSeq(mask, 1, Len(s) - 1))
         IN  IF mask[Len(s)] THEN Append(front, s[Len(s)]) ELSE front

\* frame[mask].reset_index(drop=True)
FilterRows(frame, mask) ==
    [k \in 1..Len(frame) |-> [name |-> frame[k].name, cells |-> Mask(frame[k].cells, mask)]]

-----------------------------------------------------------------------------
(* calculate_returns_optimized: its steps as operators                     *)

\* df.sort_values('Date').reset_index(drop=True); equal dates keep their order
sort_values(rows) ==
    LET n       == Len(rows)
        rank(i) == Cardinality({ j \in 1..n : \/ rows[j].Date < rows[i].Date
                                              \/ rows[j].Date = rows[i].Date /\ j < i }) + 1
    IN  [k \in 1..n |-> rows[CHOOSE i \in 1..n : rank(i) = k]]

DateColumn(rows) == [k \in 1..Len(rows) |-> rows[k].Date]

\* (latest_date - earliest_date).days / 365.25 < years
SpanTooShort(dates, y) == 4 * (Max({ dates[k] : k \in 1..Len(dates) })
                               - Min({ dates[k] : k \in 1..Len(dates) })) < 1461 * y

\* faulty variant: row i is searched from the row after it
ToIndices_after(dates, y) ==
    [i \in 1..Len(dates) |-> find_closest_trading_day(dates, DateOffset(dates[i], y), i + 1)]

\* the loop filling to_indices: row i is searched from its own index on
ToIndices(dates, y) ==
    [i \in 1..Len(dates) |-> find_closest_trading_day(dates, DateOffset(dates[i], y), i)]

ToDates(dates, idx) ==
    [i \in 1..Len(dates) |-> IF idx[i] # NoneIdx THEN strftime(dates[idx[i]]) ELSE << >>]

IsDigit(ch) == \E k \in 1..10 : DigitChar[k] = ch

RECURSIVE ParseNat(_)
ParseNat(s) ==
    IF Len(s) = 0 THEN 0
    ELSE 10 * ParseNat(SubSeq(s, 1, Len(s) - 1))
         + (CHOOSE k \in 0..9 : DigitChar[k + 1] = s[Len(s)])

\* pd.to_numeric(str(raw).replace(',', ''), errors='coerce') on integer text
to_numeric(raw) ==
    LET s    == SelectSeq(raw, LAMBDA ch : ch # ",")
        neg  == Len(s) > 0 /\ s[1] = "-"
        body == IF neg THEN Tail(s) ELSE s
    IN  IF Len(body) > 0 /\ \A k \in 1..Len(body) : IsDigit(body[k])
        THEN << IF neg THEN 0 - ParseNat(body) ELSE ParseNat(body) >>
        ELSE << >>

Series(rows, column) == [k \in 1..Len(rows) |-> to_numeric(rows[k][column])]

\* f"{annualized_return:.2f}%" with annualized_return =
\* ((end_val/start_val) ** (365.25/actual_days) - 1) * 100.  The two values
\* that need no real power are written out; a negative base gives nan; any
\* other value is kept as the triple it is computed from.
FormatReturn(start_val, end_val, actual_days) ==
    IF end_val = start_val THEN << "0", ".", "0", "0", "%" >>
    ELSE IF end_val = 0 THEN << "-", "1", "0", "0", ".", "0", "0", "%" >>
    ELSE IF (end_val < 0) # (start_val < 0) THEN << "n", "a", "n", "%" >>
    ELSE << "%.2f%%", end_val, start_val, actual_days >>

\* faulty variant: a window of exactly half the period is too short
LongEnough_strict(actual_days, y) == 8 * actual_days > 1461 * y

\* actual_days / 365.25 >= years * 0.5: 365.25 = 1461/4 and years * 0.5 are
\* exact in binary floating point and the two sides differ by at least
\* 1/2922 when they differ, so the float comparison is the integer one
LongEnough(actual_days, y) == 8 * actual_days >= 1461 * y

\* the body of the loop over to_indices, for row i
ReturnCell(series, dates, i, to_idx, y) ==
    IF to_idx # NoneIdx
    THEN LET start_val == series[i]
             end_val   == series[to_idx]
         IN  IF start_val # << >> /\ end_val # << >> /\ start_val # << 0 >>
             THEN LET actual_days == dates[to_idx] - dates[i]
                  IN  IF actual_days > 0
                      THEN IF LongEnough(actual_days, y)
                           THEN FormatReturn(start_val[1], end_val[1], actual_days)
                           ELSE << >>
                      ELSE << >>
             ELSE << >>
    ELSE << >>

Returns(series, dates, idx, y) ==
    [i \in 1..Len(idx) |-> ReturnCell(series, dates, i, idx[i], y)]

\* faulty variant: the except branch only prints
ColumnFailed_dropped(frame, column, y) == frame

\* the except branch: [""] * len(result_df)
EmptyColumn(frame) == [i \in 1..NumRows(frame) |-> << >>]

\* the except branch: the column is set to [""] * len(result_df)
ColumnFailed(frame, column, y) == SetColumn(frame, << column, y >>, EmptyColumn(frame))

\* faulty variant: every row counts as valid
ValidRows_keepAll(frame, y) ==
    LET to == Column(frame, << "To", y >>) IN [i \in 1..Len(to) |-> TRUE]

ValidRows(frame, y) ==
    LET to == Column(frame, << "To", y >>) IN [i \in 1..Len(to) |-> to[i] # << >>]

RemovedCount(valid_rows) ==
    Len(valid_rows) - Cardinality({ i \in 1..Len(valid_rows) : valid_rows[i] })

-----------------------------------------------------------------------------
(* main: the final report                                                  *)

periods == << 1, 3, 5, 7, 10 >>

\* a cell pandas fills in where a shorter frame has no row
NaNCell == << "NaN" >>

RECURSIVE AllColumns(_)
AllColumns(frames) ==
    IF Len(frames) = 0 THEN << >>
    ELSE AllColumns(SubSeq(frames, 1, Len(frames) - 1)) \o frames[Len(frames)]

\* pd.concat(frames, axis=1): the columns side by side on the union of the
\* row indexes 0 .. n-1, a shorter frame padded with NaN
Concat(frames) ==
    LET cols == AllColumns(frames)
        n    == Max({ 0 } \cup { NumRows(frames[f]) : f \in 1..Len(frames) })
    IN  [k \in 1..Len(cols) |->
            [name  |-> cols[k].name,
             cells |-> [i \in 1..n |-> IF i <= Len(cols[k].cells)
                                       THEN cols[k].cells[i] ELSE NaNCell]]]

\* faulty variant: of the columns of one name the last is kept
DropDuplicateColumns_keepLast(frame) ==
    Mask(frame, [k \in 1..Len(frame) |->
                    \A j \in (k + 1)..Len(frame) : frame[j].name # frame[k].name])

\* frame.loc[:, ~frame.columns.duplicated(keep='first')]
DropDuplicateColumns(frame) ==
    Mask(frame, [k \in 1..Len(frame) |-> \A j \in 1..(k - 1) : frame[j].name # frame[k].name])

\* the header row "Annualized Return", "", "", ... put before the data rows
WithHeader(frame) ==
    [k \in 1..Len(frame) |->
        [name  |-> frame[k].name,
         cells |-> << IF k = 1 THEN << "Annualized Return" >> ELSE << >> >> \o frame[k].cells]]

FinalReport(results) == WithHeader(DropDuplicateColumns(Concat(results)))

-----------------------------------------------------------------------------
(* The tables of the model.                                                *)

T(y, m, d, a, b) == [Date |-> DaysFromCivil(y, m, d), A |-> a, B |-> b]

Txt100   == << "1", "0", "0" >>
Txt110   == << "1", "1", "0" >>
Txt1100  == << "1", ",", "1", "0", "0" >>
TxtZero  == << "0" >>
TxtNeg   == << "-", "5", "0" >>
TxtWord  == << "a", "b", "c" >>
TxtNone  == << >>

\* rows of the tables given to calculate_returns_optimized alone
CalcRows ==
    { T(2020,  2, 29, Txt100,  TxtZero),
      T(2020,  2, 29, TxtNone, Txt1100),
      T(2020,  8, 29, Txt1100, Txt110),
      T(2020,  8, 30, TxtZero, Txt100),
      T(2021,  2, 28, Txt110,  TxtNeg),
      T(2021,  3,  1, TxtWord, Txt1100),
      T(2024,  2, 29, Txt100,  Txt100),
      T(2029,  1,  1, Txt1100, TxtNone) }

\* holding periods given to calculate_returns_optimized alone
CalcYears == { 1, 3, 8 }

\* rows of the tables main reads
MainRows ==
    { T(2020, 1, 1, Txt100,  Txt1100),
      T(2021, 1, 1, Txt110,  TxtNone),
      T(2023, 1, 1, TxtZero, Txt100),
      T(2025, 1, 1, Txt1100, Txt110),
      T(2030, 1, 1, Txt100,  TxtZero) }

DfColumns == << "Date", "A", "B" >>

SeriesColumns == { DfColumns[k] : k \in 1..Len(DfColumns) } \ { "Date" }

Table(rows) == [columns |-> DfColumns, rows |-> rows]

NoTable == Table(<< >>)

-----------------------------------------------------------------------------
(* calculate_returns_optimized: its steps as actions                       *)

\* lines 46-81: sort, span warning, From, target dates, to_indices, To
CalcBegin ==
    /\ pc = "calc"
    /\ LET sorted == sort_values(cdf.rows)
           dates  == DateColumn(sorted)
           idx    == ToIndices(dates, years)
       IN  /\ cdf' = [cdf EXCEPT !.rows = sorted]
           /\ to_indices' = idx
           /\ result_df' =
                << [name |-> << "From" >>,
                    cells |-> [i \in 1..Len(dates) |-> strftime(dates[i])]],
                   [name |-> << "To", years >>, cells |-> ToDates(dates, idx)] >>
           /\ stdout' = IF SpanTooShort(dates, years)
                        THEN Append(stdout, << "Warning: Data only spans", years >>)
                        ELSE stdout
    /\ ci' = 1
    /\ pc' = "columns"
    /\ UNCHANGED << years, failing, mainVars, locVars >>

\* lines 84-123: one iteration of the loop over df.columns
CalcColumn ==
    /\ pc = "columns"
    /\ ci <= Len(cdf.columns)
    /\ LET column == cdf.columns[ci]
           dates  == DateColumn(cdf.rows)
       IN  IF column = "Date"
           THEN UNCHANGED << result_df, stdout >>
           ELSE IF column \in failing
           THEN /\ stdout' = Append(stdout, << "Error processing column", column, years >>)
                /\ result_df' = ColumnFailed(result_df, column, years)
           ELSE /\ result_df' = SetColumn(result_df, << column, years >>,
                                          Returns(Series(cdf.rows, column), dates,
                                                  to_indices, years))
                /\ UNCHANGED stdout
    /\ ci' = ci + 1
    /\ UNCHANGED << pc, years, cdf, to_indices, failing, mainVars, locVars >>

\* lines 125-131: drop the rows with an empty To date and return
CalcFilter ==
    /\ pc = "columns"
    /\ ci > Len(cdf.columns)
    /\ LET valid_rows == ValidRows(result_df, years)
       IN  IF \A i \in 1..Len(valid_rows) : valid_rows[i]
           THEN UNCHANGED << result_df, stdout >>
           ELSE /\ stdout' = Append(stdout, << "Removed", RemovedCount(valid_rows), years >>)
                /\ result_df' = FilterRows(result_df, valid_rows)
    /\ pc' = "ret"
    /\ UNCHANGED << years, cdf, to_indices, ci, failing, mainVars, locVars >>

\* an exception outside the per-column try block leaves the function
CalcRaises ==
    /\ pc = "calc"
    /\ pc' = "raised"
    /\ UNCHANGED << failing, calcVars, mainVars, stdout, locVars >>

-----------------------------------------------------------------------------
(* main: its steps as actions                                              *)

\* faulty variant: no check of df.empty
Start_noEmptyCheck ==
    /\ pc = "start"
    /\ yi' = 1
    /\ all_results' = << >>
    /\ pc' = "loop"
    /\ UNCHANGED << stdout, df, failing, calcVars, final_db, writes, locVars >>

\* lines 134-155: read Sheet1; an empty table ends the run
Start ==
    /\ pc = "start"
    /\ IF Len(df.rows) = 0
       THEN /\ stdout' = Append(stdout, << "Warning: Data frame is empty" >>)
            /\ pc' = "returned"
            /\ UNCHANGED << yi, all_results >>
       ELSE /\ yi' = 1
            /\ all_results' = << >>
            /\ pc' = "loop"
            /\ UNCHANGED stdout
    /\ UNCHANGED << df, failing, calcVars, final_db, writes, locVars >>

\* lines 143-145: the read raises
ReadRaises ==
    /\ pc = "start"
    /\ pc' = "raised"
    /\ UNCHANGED << failing, calcVars, mainVars, stdout, locVars >>

\* lines 157-160: the call calculate_returns_optimized(df.copy(), years)
CallPeriod ==
    /\ pc = "loop"
    /\ yi <= Len(periods)
    /\ years' = periods[yi]
    /\ cdf' = df
    /\ pc' = "calc"
    /\ UNCHANGED << to_indices, result_df, ci, failing, mainVars, stdout, locVars >>

\* line 161: all_results.append(period_result_df)
AppendResult ==
    /\ pc = "ret"
    /\ all_results' = Append(all_results, result_df)
    /\ yi' = yi + 1
    /\ pc' = "loop"
    /\ UNCHANGED << df, final_db, writes, failing, calcVars, stdout, locVars >>

\* lines 164-185: assemble the final report and write it
Finalize ==
    /\ pc = "loop"
    /\ yi > Len(periods)
    /\ IF Len(all_results) > 0
       THEN /\ final_db' = FinalReport(all_results)
            /\ writes' = writes + 1
            /\ UNCHANGED stdout
       ELSE /\ stdout' = Append(stdout, << "No data was processed from the input file." >>)
            /\ UNCHANGED << final_db, writes >>
    /\ pc' = "done"
    /\ UNCHANGED << df, yi, all_results, failing, calcVars, locVars >>

\* lines 179-180: create_engine or to_sql raises
WriteRaises ==
    /\ pc = "loop"
    /\ yi > Len(periods)
    /\ pc' = "raised"
    /\ UNCHANGED << failing, calcVars, mainVars, stdout, locVars >>

\* faulty variant: the handler saves the results computed so far
CatchError_savesPartial ==
    /\ pc = "raised"
    /\ stdout' = Append(stdout, << "Error in main function" >>)
    /\ final_db' = FinalReport(all_results)
    /\ writes' = writes + 1
    /\ pc' = "error"
    /\ UNCHANGED << df, yi, all_results, failing, calcVars, locVars >>

\* lines 186-189: except Exception
CatchError ==
    /\ pc = "raised"
    /\ stdout' = Append(stdout, << "Error in main function" >>)
    /\ pc' = "error"
    /\ UNCHANGED << failing, calcVars, mainVars, locVars >>

-----------------------------------------------------------------------------
(* find_closest_trading_day as an action                                   *)

Locate ==
    /\ pc = "locate"
    /\ closest_idx' = find_closest_trading_day(dates_array, target_date, start_index)
    /\ pc' = "located"
    /\ UNCHANGED << dates_array, target_date, start_index,
                    failing, calcVars, mainVars, stdout >>

-----------------------------------------------------------------------------
(* Specifications                                                          *)

IsSorted(s) == \A k \in 1..(Len(s) - 1) : s[k] <= s[k + 1]

NoCalc ==
    /\ years = 0
    /\ cdf = NoTable
    /\ to_indices = << >>
    /\ result_df = << >>
    /\ ci = 0

NoLocate ==
    /\ dates_array = << >>
    /\ target_date = 0
    /\ start_index = 1
    /\ closest_idx = NoneIdx

NoMain ==
    /\ df = NoTable
    /\ yi = 0
    /\ all_results = << >>
    /\ final_db = << >>
    /\ writes = 0

\* a run of main on any table of at most MaxRowsMain rows
Init ==
    /\ pc = "start"
    /\ df \in { Table(r) : r \in SeqsUpTo(MainRows, MaxRowsMain) }
    /\ failing \in SUBSET SeriesColumns
    /\ yi = 0
    /\ all_results = << >>
    /\ final_db = << >>
    /\ writes = 0
    /\ stdout = << >>
    /\ NoCalc
    /\ NoLocate

Next ==
    \/ Start
    \/ ReadRaises
    \/ CallPeriod
    \/ CalcBegin
    \/ CalcColumn
    \/ CalcFilter
    \/ CalcRaises
    \/ AppendResult
    \/ Finalize
    \/ WriteRaises
    \/ CatchError

Spec == Init /\ [][Next]_vars

\* one call of calculate_returns_optimized on any non-empty table of at most
\* MaxRows rows
InitCalc ==
    /\ pc = "calc"
    /\ cdf \in { Table(r) : r \in SeqsUpTo(CalcRows, MaxRows) \ { << >> } }
    /\ years \in CalcYears
    /\ failing \in SUBSET SeriesColumns
    /\ to_indices = << >>
    /\ result_df = << >>
    /\ ci = 0
    /\ stdout = << >>
    /\ NoMain
    /\ NoLocate

NextCalc ==
    \/ CalcBegin
    \/ CalcColumn
    \/ CalcFilter
    \/ CalcRaises

SpecCalc == InitCalc /\ [][NextCalc]_vars

\* one call of find_closest_trading_day on any ascending date sequence
InitLocate ==
    /\ pc = "locate"
    /\ dates_array \in { s \in SeqsUpTo(1..MaxDay, MaxLen) : IsSorted(s) }
    /\ target_date \in 0..(MaxDay + 1)
    /\ start_index \in 1..(Len(dates_array) + 1)
    /\ closest_idx = NoneIdx
    /\ failing = {}
    /\ stdout = << >>
    /\ NoCalc
    /\ NoMain

NextLocate == Locate

SpecLocate == InitLocate /\ [][NextLocate]_vars

\* either of the two: the aligner on any arguments, and the aligner as the
\* calculator calls it
InitAlign == InitLocate \/ InitCalc

NextAlign ==
    \/ Locate
    \/ CalcBegin
    \/ CalcColumn
    \/ CalcFilter
    \/ CalcRaises

SpecAlign == InitAlign /\ [][NextAlign]_vars

-----------------------------------------------------------------------------
(* Properties of find_closest_trading_day                                  *)

\* the indexes of the slice dates_array[start_index:]
Slice == start_index..Len(dates_array)

Occurrences == { k \in Slice : dates_array[k] = target_date }

Earlier == { k \in Slice : dates_array[k] < target_date }

\* C1: when the target occurs in D[b:] the result is the index in D of its
\* first occurrence at or after b
C1_ExactFirst ==
    (pc = "located" /\ Occurrences # {}) => closest_idx = Min(Occurrences)

\* the target occurs before b, at b and after b: the occurrence at b is returned
C1_Witness ==
    /\ pc = "located"
    /\ start_index > 1
    /\ dates_array[start_index - 1] = target_date
    /\ Cardinality(Occurrences) >= 2
    /\ closest_idx = start_index

\* C2: when the target does not occur in D[b:], the result is None if the
\* slice is empty, if the target is after its last date or if no date of it is
\* before the target; otherwise it is an index of the greatest date before
\* the target; a returned date is never after the target
C2_LatestBefore ==
    (pc = "located" /\ Occurrences = {}) =>
        /\ IF \/ Slice = {}
              \/ target_date > dates_array[Len(dates_array)]
              \/ Earlier = {}
           THEN closest_idx = NoneIdx
           ELSE /\ closest_idx \in Earlier
                /\ \A k \in Earlier : dates_array[k] <= dates_array[closest_idx]
        /\ closest_idx # NoneIdx => dates_array[closest_idx] <= target_date

\* the target falls in a gap of the slice: the date before the gap is returned
C2_Witness ==
    /\ pc = "located"
    /\ Occurrences = {}
    /\ closest_idx # NoneIdx
    /\ closest_idx < Len(dates_array)
    /\ dates_array[closest_idx] < target_date
    /\ dates_array[closest_idx + 1] > target_date

\* C3: the result is never below the lower bound, so in the calculator every
\* matched row i has an end index j with i <= j <= number of rows
C3_LowerBound ==
    /\ (pc = "located" /\ closest_idx # NoneIdx) =>
            (start_index <= closest_idx /\ closest_idx <= Len(dates_array))
    /\ \A i \in 1..Len(to_indices) :
            to_indices[i] # NoneIdx => (i <= to_indices[i] /\ to_indices[i] <= Len(cdf.rows))

\* a date before the lower bound is also before the target, and is not taken
C3_Witness ==
    /\ pc = "located"
    /\ start_index > 1
    /\ closest_idx = start_index
    /\ dates_array[closest_idx] < target_date
    /\ dates_array[start_index - 1] < dates_array[start_index]

-----------------------------------------------------------------------------
(* Properties of calculate_returns_optimized                               *)

\* the sorted dates, once CalcBegin has run
Dates == DateColumn(cdf.rows)

Matched == { i \in 1..Len(to_indices) : to_indices[i] # NoneIdx }

Printed(msg) == \E k \in 1..Len(stdout) : stdout[k] = msg

\* the series columns whose iteration of the loop has run
Processed ==
    { cdf.columns[k] : k \in { j \in 1..Len(cdf.columns) : pc = "ret" \/ j < ci } } \ { "Date" }

\* C4: every retained row has a To date, the retained rows are the matched
\* rows, and the count printed is input rows minus retained rows
C4_RowDrop ==
    pc = "ret" =>
        LET to       == Column(result_df, << "To", years >>)
            from     == Column(result_df, << "From" >>)
            retained == NumRows(result_df)
            dropped  == Len(cdf.rows) - retained
        IN  /\ \A r \in 1..retained : to[r] # << >>
            /\ retained = Cardinality(Matched)
            /\ from = Mask([i \in 1..Len(Dates) |-> strftime(Dates[i])],
                           [i \in 1..Len(Dates) |-> i \in Matched])
            /\ \A c \in 0..Len(cdf.rows) :
                    Printed(<< "Removed", c, years >>) <=> (c = dropped /\ dropped > 0)

\* some rows are retained and some dropped
C4_Witness ==
    /\ pc = "ret"
    /\ NumRows(result_df) >= 1
    /\ Len(cdf.rows) - NumRows(result_df) >= 2
    /\ Printed(<< "Removed", 2, years >>)

\* the condition of C5 on row i of a series column
HasReturn(column, i) ==
    LET j         == to_indices[i]
        start_val == to_numeric(cdf.rows[i][column])
        end_val   == to_numeric(cdf.rows[j][column])
    IN  /\ start_val # << >>
        /\ end_val # << >>
        /\ start_val[1] # 0
        /\ Dates[j] - Dates[i] > 0
        /\ 8 * (Dates[j] - Dates[i]) >= 1461 * years

ResultNames ==
    << << "From" >>, << "To", years >> >>
    \o [k \in 1..(Len(cdf.columns) - 1) |->
            << SelectSeq(cdf.columns, LAMBDA c : c # "Date")[k], years >>]

\* C6: a failed column is in the result, all-empty; From, To and the other
\* columns hold what they hold when nothing fails; the columns are in the
\* given order
C6_ColumnFailure ==
    pc = "ret" =>
        LET valid == [i \in 1..Len(Dates) |-> i \in Matched]
        IN  /\ [k \in 1..Len(result_df) |-> result_df[k].name] = ResultNames
            /\ Column(result_df, << "From" >>)
                  = Mask([i \in 1..Len(Dates) |-> strftime(Dates[i])], valid)
            /\ Column(result_df, << "To", years >>)
                  = Mask(ToDates(Dates, to_indices), valid)
            /\ \A column \in SeriesColumns :
                  Column(result_df, << column, years >>)
                    = IF column \in failing
                      THEN [r \in 1..NumRows(result_df) |-> << >>]
                      ELSE Mask([i \in 1..Len(Dates) |->
                                    ReturnCell(Series(cdf.rows, column), Dates, i,
                                               to_indices[i], years)], valid)
            /\ \A column \in failing :
                  Printed(<< "Error processing column", column, years >>)

\* the first column fails and the one after it still gets a value
C6_Witness ==
    /\ pc = "ret"
    /\ failing = { "A" }
    /\ \E r \in 1..NumRows(result_df) :
          /\ Column(result_df, << "A", years >>)[r] = << >>
          /\ Column(result_df, << "B", years >>)[r] # << >>
          /\ HasReturn("A", r)

\* C10: a row is unmatched exactly when its date plus the period is after the
\* last date; a row aligned to itself is retained, its To date equal to its
\* From date and all its return cells empty
C10_Horizon ==
    /\ pc \in { "columns", "ret" } =>
          \A i \in 1..Len(Dates) :
              to_indices[i] = NoneIdx <=> DateOffset(Dates[i], years) > Dates[Len(Dates)]
    /\ pc = "ret" =>
          \A i \in 1..Len(Dates) :
              to_indices[i] = i =>
                  /\ i <= NumRows(result_df)
                  /\ Column(result_df, << "From" >>)[i] = strftime(Dates[i])
                  /\ Column(result_df, << "To", years >>)[i] = strftime(Dates[i])
                  /\ \A column \in SeriesColumns :
                        Column(result_df, << column, years >>)[i] = << >>

\* a row with a start value is aligned to itself while a later date exists
C10_Witness ==
    /\ pc = "ret"
    /\ failing = {}
    /\ \E i \in 1..(Len(Dates) - 1) :
          /\ to_indices[i] = i
          /\ Dates[i + 1] > Dates[i]
          /\ to_numeric(cdf.rows[i]["A"]) \notin { << >>, << 0 >> }

-----------------------------------------------------------------------------
(* Properties of main                                                      *)

\* C7: on a table of zero rows main prints the warning, calls the calculator
\* for no period, writes nothing and ends by returning, not in the handler
C7_InputEmpty ==
    /\ Len(df.rows) = 0 =>
          /\ pc \in { "start", "returned", "raised", "error" }
          /\ pc \in { "raised", "error" } => ~Printed(<< "Warning: Data frame is empty" >>)
          /\ years = 0 /\ cdf = NoTable /\ all_results = << >>
          /\ writes = 0 /\ final_db = << >>
    /\ pc = "returned" =>
          /\ Len(df.rows) = 0
          /\ stdout = << << "Warning: Data frame is empty" >> >>

\* the run on the empty table has ended
C7_Witness ==
    /\ pc = "returned"
    /\ Len(df.rows) = 0
    /\ Printed(<< "Warning: Data frame is empty" >>)
    /\ writes = 0

\* C8: the output is written at most once and only with the results of all
\* the periods 1, 3, 5, 7, 10, computed in that order; a run in which a
\* period raised ends in the handler with nothing written
C8_Atomic ==
    /\ writes \in { 0, 1 }
    /\ \A k \in 1..Len(all_results) :
          k <= Len(periods) /\ ColumnIndex(all_results[k], << "To", periods[k] >>) # {}
    /\ (writes = 1 \/ final_db # << >>) =>
          /\ pc = "done"
          /\ writes = 1
          /\ Len(all_results) = Len(periods)
          /\ final_db = FinalReport(all_results)
          /\ \A k \in 1..Len(periods) : ColumnIndex(final_db, << "To", periods[k] >>) # {}
    /\ pc \in { "raised", "error" } => (writes = 0 /\ final_db = << >>)
    /\ pc = "error" => Printed(<< "Error in main function" >>)
    /\ pc = "done" => writes = 1

\* a period raised after two periods had been computed
C8_Witness ==
    /\ pc = "error"
    /\ Len(all_results) = 2
    /\ years = periods[3]
    /\ writes = 0
    /\ final_db = << >>

\* the sorted dates of the table main read
MainDates == DateColumn(sort_values(df.rows))

\* C9: the rows a period drops are the last rows of the sorted table, so row
\* r of every period's result is the r-th sorted date and a longer period
\* keeps no more rows than a shorter one; in the final report every data row
\* carries the From date of the first period, and its To date and return
\* cells of every period are those computed from that date
C9_RowAlignment ==
    /\ \A i \in 1..Len(to_indices) : \A j \in i..Len(to_indices) :
          to_indices[i] = NoneIdx => to_indices[j] = NoneIdx
    /\ \A k \in 1..Len(all_results) :
          /\ k > 1 => NumRows(all_results[k]) <= NumRows(all_results[k - 1])
          /\ \A r \in 1..NumRows(all_results[k]) :
                Column(all_results[k], << "From" >>)[r] = strftime(MainDates[r])
    /\ pc = "done" =>
          LET n == NumRows(all_results[1])
          IN  /\ Cardinality(ColumnIndex(final_db, << "From" >>)) = 1
              /\ NumRows(final_db) = n + 1
              /\ \A r \in 1..n :
                    /\ Column(final_db, << "From" >>)[r + 1] = strftime(MainDates[r])
                    /\ \A k \in 1..Len(periods) :
                          LET j == ToIndices(MainDates, periods[k])[r]
                          IN  /\ Column(final_db, << "To", periods[k] >>)[r + 1]
                                    = IF j = NoneIdx THEN NaNCell ELSE strftime(MainDates[j])
                              /\ \A column \in SeriesColumns :
                                    Column(final_db, << column, periods[k] >>)[r + 1]
                                      = IF j = NoneIdx THEN NaNCell
                                        ELSE IF column \in failing THEN << >>
                                        ELSE ReturnCell(Series(sort_values(df.rows), column),
                                                        MainDates, r, j, periods[k])

\* a report whose second data row has a To date for 1 year and none for 3
\* years, the first data row having both
C9_Witness ==
    /\ pc = "done"
    /\ NumRows(final_db) >= 3
    /\ Column(final_db, << "To", 3 >>)[2] \notin { NaNCell, << >> }
    /\ Column(final_db, << "To", 1 >>)[3] \notin { NaNCell, << >> }
    /\ Column(final_db, << "To", 3 >>)[3] = NaNCell

====
